---- MODULE Spec2Model ----
(***************************************************************************)
(* Model of the budget extractor (Core/extractor.py), the NLP analyser     *)
(* (Core/nlp_model.py) and the two orchestrators (main.py, Core/cli.py).   *)
(*                                                                         *)
(* Text is modelled down to the character: a string is a sequence of       *)
(* one-character strings, a line is a sequence of tokens (the maximal      *)
(* runs of non-blank characters), a page is a sequence of lines, each      *)
(* ended by a newline.  The regular expressions of Configuracion are       *)
(* modelled on that token stream.                                          *)
(***************************************************************************)
EXTENDS Integers, Sequences, FiniteSets, TLC

VARIABLES
    \* ---- _convertir_numero, called on its own
    texto_numero, num_salida, num_pc,
    \* ---- ExtractorPresupuestos.procesar_pdf
    ruta_existe, doc, config, pc, mapa_metadatos, partidas_finales,
    inconsistencias, df, excepcion,
    \* ---- AnalizadorNLP.analizar
    datos_nlp, nlp_pc, idx, resultados, tagger_llamadas, nlp_excepcion, nlp_retorno,
    \* ---- the orchestrators main.run and cli.procesar
    variante, args, n_paginas, archivo_existe, extraccion, modelo_instalado,
    run_pc, paginas, excel_escrito, json_escrito

numVars == <<texto_numero, num_salida, num_pc>>
extVars == <<ruta_existe, doc, config, pc, mapa_metadatos, partidas_finales,
             inconsistencias, df, excepcion>>
nlpVars == <<datos_nlp, nlp_pc, idx, resultados, tagger_llamadas, nlp_excepcion,
             nlp_retorno>>
runVars == <<variante, args, n_paginas, archivo_existe, extraccion, modelo_instalado, run_pc,
             paginas, excel_escrito, json_escrito>>
vars == <<numVars, extVars, nlpVars, runVars>>

(***************************************************************************)
(* Strings                                                                 *)
(***************************************************************************)
Digitos == {"0", "1", "2", "3", "4", "5", "6", "7", "8", "9"}

ValorDigito(c) ==
    CASE c = "0" -> 0 [] c = "1" -> 1 [] c = "2" -> 2 [] c = "3" -> 3
      [] c = "4" -> 4 [] c = "5" -> 5 [] c = "6" -> 6 [] c = "7" -> 7
      [] c = "8" -> 8 [] c = "9" -> 9

\* str.lower() / str.upper() on one character (ASCII letters; others unchanged)
Minusculas == <<"a","b","c","d","e","f","g","h","i","j","k","l","m",
                "n","o","p","q","r","s","t","u","v","w","x","y","z","ó">>
Mayusculas == <<"A","B","C","D","E","F","G","H","I","J","K","L","M",
                "N","O","P","Q","R","S","T","U","V","W","X","Y","Z","Ó">>

LowerChar(c) ==
    IF \E i \in 1..Len(Mayusculas) : Mayusculas[i] = c
    THEN Minusculas[CHOOSE i \in 1..Len(Mayusculas) : Mayusculas[i] = c]
    ELSE c

UpperChar(c) ==
    IF \E i \in 1..Len(Minusculas) : Minusculas[i] = c
    THEN Mayusculas[CHOOSE i \in 1..Len(Minusculas) : Minusculas[i] = c]
    ELSE c

Lower(s) == [i \in 1..Len(s) |-> LowerChar(s[i])]
Upper(s) == [i \in 1..Len(s) |-> UpperChar(s[i])]

\* str.replace(a, b) for a one-character a and a string b
RECURSIVE Replace(_, _, _)
Replace(s, a, b) ==
    IF s = <<>> THEN <<>>
    ELSE (IF Head(s) = a THEN b ELSE <<Head(s)>>) \o Replace(Tail(s), a, b)

\* int() of a run of decimal digits (0 for the empty run)
RECURSIVE ToInt(_)
ToInt(s) ==
    IF s = <<>> THEN 0
    ELSE 10 * ToInt(SubSeq(s, 1, Len(s) - 1)) + ValorDigito(s[Len(s)])

SoloDigitos(s) == \A i \in 1..Len(s) : s[i] \in Digitos

\* positions of character c in s
Posiciones(s, c) == {i \in 1..Len(s) : s[i] = c}

\* str.split(c): the pieces of s between the occurrences of c
RECURSIVE Split(_, _)
Split(s, c) ==
    IF Posiciones(s, c) = {} THEN <<s>>
    ELSE LET p == CHOOSE i \in Posiciones(s, c) :
                      \A j \in Posiciones(s, c) : i <= j
         IN <<SubSeq(s, 1, p - 1)>> \o Split(SubSeq(s, p + 1, Len(s)), c)

\* str.strip(): blanks and newlines removed at both ends
Blancos == {" ", "\n", "\t"}

RECURSIVE LStrip(_)
LStrip(s) == IF s # <<>> /\ Head(s) \in Blancos THEN LStrip(Tail(s)) ELSE s

RECURSIVE RStrip(_)
RStrip(s) ==
    IF s # <<>> /\ s[Len(s)] \in Blancos
    THEN RStrip(SubSeq(s, 1, Len(s) - 1)) ELSE s

Strip(s) == RStrip(LStrip(s))

(***************************************************************************)
(* Python values: None, and str(x)                                         *)
(***************************************************************************)
PyNone == <<"<None>">>

Str(x) == IF x = PyNone THEN <<"N", "o", "n", "e">> ELSE x

(***************************************************************************)
(* float(str): the grammar of Python's float() on a string.  A float is    *)
(* kept exact: (ent + frac / 10^escala) * 10^exp, with its sign.           *)
(***************************************************************************)
\* digits with single underscores between them: "1_000" but not "_1", "1__0"
GrupoDigitos(s) ==
    /\ s # <<>>
    /\ \A i \in 1..Len(s) : s[i] \in Digitos \cup {"_"}
    /\ s[1] # "_" /\ s[Len(s)] # "_"
    /\ \A i \in 1..(Len(s) - 1) : ~(s[i] = "_" /\ s[i + 1] = "_")

SinGuiones(s) == Replace(s, "_", <<>>)

SinSigno(s) == IF s # <<>> /\ Head(s) \in {"+", "-"} THEN Tail(s) ELSE s

Negativo(s) == s # <<>> /\ Head(s) = "-"

\* the mantissa: digits [. [digits]] or . digits
MantisaValida(m) ==
    LET ps == Split(m, ".")
    IN \/ Len(ps) = 1 /\ GrupoDigitos(ps[1])
       \/ /\ Len(ps) = 2
          /\ ps[1] = <<>> \/ GrupoDigitos(ps[1])
          /\ ps[2] = <<>> \/ GrupoDigitos(ps[2])
          /\ ps[1] # <<>> \/ ps[2] # <<>>

ExponenteValido(e) == GrupoDigitos(SinSigno(e))

Especiales == { <<"i","n","f">>, <<"i","n","f","i","n","i","t","y">>,
                <<"n","a","n">> }

FloatValido(t) ==
    LET b  == SinSigno(t)
        ps == Split(Lower(b), "e")
    IN \/ Lower(b) \in Especiales
       \/ Len(ps) = 1 /\ MantisaValida(ps[1])
       \/ Len(ps) = 2 /\ MantisaValida(ps[1]) /\ ExponenteValido(ps[2])

ValueError == [exc |-> "ValueError"]

Cero == [exc |-> "none", clase |-> "fin", neg |-> FALSE,
         ent |-> 0, frac |-> 0, escala |-> 0, exp |-> 0]

PyFloat(s) ==
    LET t == Strip(s)
        b == SinSigno(t)
    IN IF ~FloatValido(t) THEN ValueError
       ELSE IF Lower(b) \in Especiales
       THEN [Cero EXCEPT !.clase = IF Lower(b) = <<"n","a","n">> THEN "nan" ELSE "inf",
                         !.neg = Negativo(t)]
       ELSE LET ps == Split(Lower(b), "e")
                ms == Split(ps[1], ".")
                fr == IF Len(ms) = 2 THEN SinGuiones(ms[2]) ELSE <<>>
                ex == IF Len(ps) = 2 THEN ps[2] ELSE <<>>
            IN [exc |-> "none", clase |-> "fin", neg |-> Negativo(t),
                ent |-> ToInt(SinGuiones(ms[1])),
                frac |-> ToInt(fr), escala |-> Len(fr),
                exp |-> IF Negativo(ex) THEN 0 - ToInt(SinGuiones(SinSigno(ex)))
                        ELSE ToInt(SinGuiones(SinSigno(ex)))]

(***************************************************************************)
(* ExtractorPresupuestos._convertir_numero                                 *)
(***************************************************************************)
SoloAttributeError == {"AttributeError"}

\* the exceptions the except clause catches
ExcepcionesCapturadas == {"ValueError", "AttributeError"}

SinQuitarPuntos(texto) == PyFloat(Replace(Str(texto), ",", <<".">>))

\* float(str(texto_numero).replace('.', '').replace(',', '.'))
NumeroNormalizado(texto) ==
    PyFloat(Replace(Replace(Str(texto), ".", <<>>), ",", <<".">>))

convertir_numero(texto) ==
    LET r == NumeroNormalizado(texto)
    IN IF r.exc \in ExcepcionesCapturadas THEN Cero ELSE r

(***************************************************************************)
(* Text: pages, lines, tokens                                              *)
(***************************************************************************)
Min(a, b) == IF a <= b THEN a ELSE b

\* the 1-based page numbers range(start - 1, min(end, len(doc))) visits
PaginasDelRango(start, end, n) == start..Min(end, n)

\* "\n".join(parts): every page ends its last line with a newline, so the
\* joining newline shows as an empty line between two pages
RECURSIVE UnirPaginas(_)
UnirPaginas(partes) ==
    IF partes = <<>> THEN <<>>
    ELSE IF Len(partes) = 1 THEN partes[1]
    ELSE partes[1] \o << <<>> >> \o UnirPaginas(Tail(partes))

extraer_texto_rango(d, rango) ==
    LET ps == PaginasDelRango(rango[1], rango[2], Len(d))
    IN UnirPaginas([k \in 1..Cardinality(ps) |-> d[rango[1] + k - 1]])

\* the tokens of one line, each with its place on the line
FichasDeLinea(l) ==
    [k \in 1..Len(l) |-> [tok |-> l[k], primero |-> (k = 1), ultimo |-> (k = Len(l))]]

\* the tokens of a text, in order (blank lines hold none)
RECURSIVE Fichas(_)
Fichas(lineas) ==
    IF lineas = <<>> THEN <<>>
    ELSE FichasDeLinea(Head(lineas)) \o Fichas(Tail(lineas))

(***************************************************************************)
(* Configuracion.patrones                                                  *)
(***************************************************************************)
\* \d{2,3}\.\d{2}\.\d{2,3}
EsCodigo(t) ==
    LET ps == Split(t, ".")
    IN /\ Len(ps) = 3
       /\ \A k \in 1..3 : SoloDigitos(ps[k])
       /\ Len(ps[1]) \in {2, 3} /\ Len(ps[2]) = 2 /\ Len(ps[3]) \in {2, 3}

\* ud|m2|m3|kg|ml|m|l|uds
Unidades == { <<"u","d">>, <<"m","2">>, <<"m","3">>, <<"k","g">>, <<"m","l">>,
              <<"m">>, <<"l">>, <<"u","d","s">> }

\* the unit group followed by \s+, under re.IGNORECASE
EsUnidad(t) == Lower(t) \in Unidades

\* the unit alternatives of the lookahead, which nothing need follow
EmpiezaConUnidad(t) ==
    \E u \in Unidades : Len(u) <= Len(t) /\ SubSeq(Lower(t), 1, Len(u)) = u

\* [\d.,]+
EsNumerico(t) == t # <<>> /\ \A k \in 1..Len(t) : t[k] \in Digitos \cup {".", ","}

\* the first place in token t from which the rest of t is a code (0: none)
InicioCodigo(t) ==
    LET ks == {k \in 1..Len(t) : EsCodigo(SubSeq(t, k, Len(t)))}
    IN IF ks = {} THEN 0 ELSE CHOOSE k \in ks : \A j \in ks : k <= j

\* (?=\s*<codigo>\s+(?:<unidad>)): the lookahead of bloque_medicion at token p
Anticipo(f, p) ==
    /\ p + 1 <= Len(f)
    /\ InicioCodigo(f[p].tok) # 0
    /\ EmpiezaConUnidad(f[p + 1].tok)

\* ^\s*<codigo>\s+<unidad>\s+ of bloque_medicion at token i
BloqueEn(f, i) ==
    /\ f[i].primero /\ EsCodigo(f[i].tok)
    /\ i + 1 <= Len(f) /\ EsUnidad(f[i + 1].tok)

\* the last whole token of the lazy (?P<texto>.*?) of a block at token i:
\* it stops at the first end of line ($ under re.MULTILINE), lookahead or end
FinTexto(f, i) ==
    CHOOSE q \in (i + 1)..Len(f) :
        /\ q = Len(f) \/ (q >= i + 2 /\ f[q].ultimo) \/ Anticipo(f, q + 1)
        /\ \A r \in (i + 1)..(q - 1) :
               ~(r = Len(f) \/ (r >= i + 2 /\ f[r].ultimo) \/ Anticipo(f, r + 1))

\* the tokens the texto group captures (the lookahead may cut a token short)
TextoDeBloque(f, i) ==
    LET q == FinTexto(f, i)
        enteras == [k \in 1..(q - i - 1) |-> f[i + 1 + k].tok]
        corte == IF q < Len(f) /\ ~(q >= i + 2 /\ f[q].ultimo) /\ Anticipo(f, q + 1)
                 THEN InicioCodigo(f[q + 1].tok) ELSE 0
    IN IF corte > 1
       THEN enteras \o <<SubSeq(f[q + 1].tok, 1, corte - 1)>>
       ELSE enteras

\* patrones_compilados['bloque_medicion'].finditer(texto): the groupdicts of
\* the non-overlapping matches from token `desde` on, left to right
RECURSIVE BloquesDesde(_, _)
BloquesDesde(f, desde) ==
    LET is == {i \in desde..Len(f) : BloqueEn(f, i)}
    IN IF is = {} THEN <<>>
       ELSE LET i == CHOOSE x \in is : \A y \in is : x <= y
            IN << [codigo |-> f[i].tok, unidad |-> f[i + 1].tok,
                   texto |-> TextoDeBloque(f, i)] >>
               \o BloquesDesde(f, FinTexto(f, i) + 1)

finditer_bloque_medicion(texto) == BloquesDesde(Fichas(texto), 1)

\* the lengths d of (?P<desc_corta>.+?) with which a row matches at token i
LargosDesc(f, i) ==
    {d \in 1..Len(f) :
        /\ i + d + 3 <= Len(f)
        /\ EsNumerico(f[i + d + 1].tok)
        /\ EsNumerico(f[i + d + 2].tok)
        /\ EsNumerico(f[i + d + 3].tok)
        /\ f[i + d + 3].ultimo}

FilaEn(f, i) == f[i].primero /\ EsCodigo(f[i].tok) /\ LargosDesc(f, i) # {}

\* patrones_compilados['fila_presupuesto'].finditer(texto)
RECURSIVE FilasDesde(_, _)
FilasDesde(f, desde) ==
    LET is == {i \in desde..Len(f) : FilaEn(f, i)}
    IN IF is = {} THEN <<>>
       ELSE LET i == CHOOSE x \in is : \A y \in is : x <= y
                d == CHOOSE x \in LargosDesc(f, i) : \A y \in LargosDesc(f, i) : x <= y
            IN << [codigo |-> f[i].tok,
                   desc_corta |-> [k \in 1..d |-> f[i + k].tok],
                   cantidad |-> f[i + d + 1].tok,
                   precio |-> f[i + d + 2].tok,
                   importe |-> f[i + d + 3].tok] >>
               \o FilasDesde(f, i + d + 4)

finditer_fila_presupuesto(texto) == FilasDesde(Fichas(texto), 1)

(***************************************************************************)
(* The documents of the model: every sequence of 1..MaxPaginas pages drawn *)
(* from the pages below.                                                   *)
(***************************************************************************)
\* a measurements page: two blocks, the layout of test_procesar_pdf_con_mock
PagMediciones ==
    << << <<"1","0",".","0","1",".","0","1">>, <<"u","d">>, <<"D","e","s","c">>, <<"A">> >>,
       << <<"M","a","s">>, <<"d","e","t","a","l","l","e","s">> >>,
       << <<"1","0",".","0","1",".","0","2">>, <<"m","2">>, <<"D","e","s","c">>, <<"B">> >> >>

\* a second measurements page: code 10.01.01 again, and a unit that ends its line
PagMedicionesDos ==
    << << <<"1","0",".","0","1",".","0","1">>, <<"U","D","S">>, <<"O","t","r","a">> >>,
       << <<"9","9",".","0","1",".","0","1">>, <<"k","g">> >>,
       << <<"C","a","b","l","e">>, <<"R","E","B","T">> >> >>

\* a budget-table page, rows out of code order
PagTabla ==
    << << <<"1","0",".","0","1",".","0","2">>, <<"R","E","S","2">>, <<"5",",","0","0">>, <<"2","0",",","0","0">>, <<"1","0","0",",","0","0">> >>,
       << <<"1","0",".","0","1",".","0","1">>, <<"R","E","S","1">>, <<"1","0",",","0","0">>, <<"1","0","0",",","0","0">>, <<"1",".","0","0","0",",","0","0">> >> >>

\* a second table page: an unmapped code, a malformed quantity, a zero-padded code
PagTablaDos ==
    << << <<"1","0","0",".","0","1",".","0","1">>, <<"R","E","S","3">>, <<"1","0",",","0","0">>, <<"1","0","0",",","0","0">>, <<"9","0","0",",","0","0">> >>,
       << <<"9","9",".","0","1",".","0","1">>, <<"R","E","S","4">>, <<"1",",","2",",","3">>, <<"2",",","0","0">>, <<"7">> >>,
       << <<"0","1","0",".","0","1",".","0","2">>, <<"R","E","S","5">>, <<"1",",","0","0">>, <<"1",",","0","0">>, <<"1",",","0","0">> >> >>

\* a line both patterns match
PagMixta ==
    << << <<"1","0",".","0","1",".","0","3">>, <<"m","l">>, <<"T","u","b","o">>, <<"2",",","0","0">>, <<"3",",","5","0">>, <<"7",",","0","0">> >> >>

\* a page neither pattern matches
PagSinDatos ==
    << << <<"S","i","n">>, <<"d","a","t","o","s">> >> >>

PaginasModelo == {PagMediciones, PagMedicionesDos, PagTabla, PagTablaDos,
                  PagMixta, PagSinDatos}

MaxPaginas == 2

Documentos == UNION {[1..n -> PaginasModelo] : n \in 1..MaxPaginas}

\* Configuracion.paginas_mediciones / paginas_presupuesto: the default of the
\* dataclass, the ranges of the test fixture, and the whole document
RangoPorDefecto == <<1576, 2547>>

Rangos == {<<1, 1>>, <<2, 2>>, <<1, MaxPaginas>>, RangoPorDefecto}

\* the Configuracion objects of the model: the dataclass default, the test
\* fixture (1, 1) / (2, 2) and its mirror, one page or the whole document
\* for both passes
Configuraciones ==
    { [paginas_mediciones |-> a, paginas_presupuesto |-> a] : a \in Rangos }
    \cup { [paginas_mediciones |-> <<1, 1>>, paginas_presupuesto |-> <<2, 2>>],
           [paginas_mediciones |-> <<2, 2>>, paginas_presupuesto |-> <<1, 1>>],
           [paginas_mediciones |-> <<1, MaxPaginas>>, paginas_presupuesto |-> <<2, 2>>] }

(***************************************************************************)
(* procesar_pdf, pass 1: the metadata mapping                              *)
(***************************************************************************)
MapaVacio == <<>>

PrimeroGana(mapa, k, v) ==
    IF k \in DOMAIN mapa THEN mapa
    ELSE [x \in (DOMAIN mapa) \cup {k} |-> IF x = k THEN v ELSE mapa[x]]

\* mapa_metadatos[codigo] = {...}: a dict assignment
Asignar(mapa, k, v) ==
    [x \in (DOMAIN mapa) \cup {k} |-> IF x = k THEN v ELSE mapa[x]]

\* {'DESCRIPCIÓN': datos['texto'].strip().split('\n')[0],
\*  'UNIDAD': datos['unidad'].upper()}.  The lazy texto group stops at the
\* first end of line, so it holds the tokens of one line: strip() and
\* split('\n')[0] leave exactly those tokens.
MetadatosDe(datos) ==
    [DESCRIPCION |-> datos.texto, UNIDAD |-> Upper(datos.unidad)]

RECURSIVE MapearDesde(_, _)
MapearDesde(ms, mapa) ==
    IF ms = <<>> THEN mapa
    ELSE MapearDesde(Tail(ms), Asignar(mapa, Head(ms).codigo, MetadatosDe(Head(ms))))

MapearMetadatos(texto_mediciones) ==
    MapearDesde(finditer_bloque_medicion(texto_mediciones), MapaVacio)

(***************************************************************************)
(* procesar_pdf, pass 2: the rows of the table, merged with the mapping    *)
(***************************************************************************)
UnidadPorDefecto == <<"U", "D">>

SiempreDescCorta(mapa, datos) ==
    [DESCRIPCION |-> datos.desc_corta, UNIDAD |-> UnidadPorDefecto]

\* mapa_metadatos.get(codigo, {'DESCRIPCIÓN': datos['desc_corta'], 'UNIDAD': 'UD'})
InfoPartida(mapa, datos) ==
    IF datos.codigo \in DOMAIN mapa THEN mapa[datos.codigo]
    ELSE [DESCRIPCION |-> datos.desc_corta, UNIDAD |-> UnidadPorDefecto]

Partida(mapa, datos) ==
    [CODIGO          |-> datos.codigo,
     DESCRIPCION     |-> InfoPartida(mapa, datos).DESCRIPCION,
     UNIDAD          |-> InfoPartida(mapa, datos).UNIDAD,
     CANTIDAD        |-> convertir_numero(datos.cantidad),
     PRECIO_UNITARIO |-> convertir_numero(datos.precio),
     IMPORTE_TOTAL   |-> convertir_numero(datos.importe)]

FusionarFilas(texto_presupuesto, mapa) ==
    LET ms == finditer_fila_presupuesto(texto_presupuesto)
    IN [k \in 1..Len(ms) |-> Partida(mapa, ms[k])]

\* an exception leaving _convertir_numero leaves procesar_pdf too
Propagada(p) ==
    \/ p.CANTIDAD.exc # "none"
    \/ p.PRECIO_UNITARIO.exc # "none"
    \/ p.IMPORTE_TOTAL.exc # "none"

(***************************************************************************)
(* procesar_pdf, step 3: the natural sort of the DataFrame                 *)
(***************************************************************************)
\* df['CÓDIGO'].str.split('.', expand=True).fillna('0'), then pd.to_numeric
Segmento(codigo, k) ==
    LET ps == Split(codigo, ".")
    IN IF k <= Len(ps) THEN ToInt(ps[k]) ELSE ToInt(<<"0">>)

\* the order of the characters of a code as text
OrdenCaracter(c) == IF c = "." THEN 0 ELSE 1 + ValorDigito(c)

RECURSIVE TextoMenorIgual(_, _)
TextoMenorIgual(a, b) ==
    IF a = <<>> THEN TRUE
    ELSE IF b = <<>> THEN FALSE
    ELSE IF Head(a) # Head(b) THEN OrdenCaracter(Head(a)) < OrdenCaracter(Head(b))
    ELSE TextoMenorIgual(Tail(a), Tail(b))

\* sort_values(by=['c1', 'c2', 'c3']): a before-or-equal b
ClaveMenorIgual(a, b) ==
    \/ Segmento(a, 1) < Segmento(b, 1)
    \/ /\ Segmento(a, 1) = Segmento(b, 1)
       /\ \/ Segmento(a, 2) < Segmento(b, 2)
          \/ /\ Segmento(a, 2) = Segmento(b, 2)
             /\ Segmento(a, 3) <= Segmento(b, 3)

InsertarAntes(orden, x) ==
    LET ks == {k \in 1..Len(orden) : ~ClaveMenorIgual(x.CODIGO, orden[k].CODIGO)}
        n  == IF ks = {} THEN 0 ELSE CHOOSE k \in ks : \A j \in ks : j <= k
    IN SubSeq(orden, 1, n) \o <<x>> \o SubSeq(orden, n + 1, Len(orden))

\* x placed after the rows of `orden` whose key is not greater: the sort of
\* sort_values on several columns is stable
InsertarEstable(orden, x) ==
    LET ks == {k \in 1..Len(orden) : ClaveMenorIgual(orden[k].CODIGO, x.CODIGO)}
        n  == IF ks = {} THEN 0 ELSE CHOOSE k \in ks : \A j \in ks : j <= k
    IN SubSeq(orden, 1, n) \o <<x>> \o SubSeq(orden, n + 1, Len(orden))

RECURSIVE OrdenarDesde(_, _)
OrdenarDesde(filas, orden) ==
    IF filas = <<>> THEN orden
    ELSE OrdenarDesde(Tail(filas), InsertarEstable(orden, Head(filas)))

SoloImporteExacto(partidas) ==
    OrdenarDesde(SelectSeq(partidas,
                           LAMBDA p : p.IMPORTE_TOTAL.ent * 100 =
                                      p.CANTIDAD.ent * p.PRECIO_UNITARIO.ent * 100),
                 <<>>)

\* pd.DataFrame(partidas_finales) ... sort_values ... reset_index(drop=True)
OrdenarDataFrame(partidas) == OrdenarDesde(partidas, <<>>)

(***************************************************************************)
(* ConsistencyChecker (spec section 4.5): computedTotal against the total  *)
(* of the row, in fixed point.  Amounts are read in hundredths.            *)
(***************************************************************************)
RECURSIVE Pot10(_)
Pot10(n) == IF n <= 0 THEN 1 ELSE 10 * Pot10(n - 1)

\* x * 10^k as an integer, for a finite x >= 0 with at most k decimals
Escalado(x, k) == x.ent * Pot10(k) + x.frac * Pot10(k - x.escala)

DosDecimales(x) == x.exc = "none" /\ x.clase = "fin" /\ x.exp = 0 /\ x.escala <= 2

\* n / d rounded to the nearest integer, ties to even
Redondear(n, d) ==
    LET q == n \div d
        r == n % d
    IN IF 2 * r < d THEN q
       ELSE IF 2 * r > d THEN q + 1
       ELSE IF q % 2 = 0 THEN q ELSE q + 1

Abs(n) == IF n < 0 THEN 0 - n ELSE n

\* round(quantity * unitPrice, 2), in hundredths
computedTotal(p) == Redondear(Escalado(p.CANTIDAD, 2) * Escalado(p.PRECIO_UNITARIO, 2), 100)

\* abs(total - computedTotal) > 0.1
Tolerancia == 10

Inconsistente(p) == Abs(Escalado(p.IMPORTE_TOTAL, 2) - computedTotal(p)) > Tolerancia

\* the places, in text order, of the rows the checker flags
Inconsistencias(partidas) ==
    {k \in 1..Len(partidas) : Inconsistente(partidas[k])}

(***************************************************************************)
(* ExtractorPresupuestos.procesar_pdf as steps                             *)
(***************************************************************************)
InitExtractor ==
    /\ ruta_existe \in BOOLEAN
    /\ doc \in Documentos
    /\ config \in Configuraciones
    /\ pc = "inicio"
    /\ mapa_metadatos = MapaVacio
    /\ partidas_finales = <<>>
    /\ inconsistencias = {}
    /\ df = <<>>
    /\ excepcion = "none"

ExtractorEnReposo ==
    /\ ruta_existe = FALSE
    /\ doc = <<>>
    /\ config = [paginas_mediciones |-> RangoPorDefecto,
                 paginas_presupuesto |-> RangoPorDefecto]
    /\ pc = "reposo"
    /\ mapa_metadatos = MapaVacio
    /\ partidas_finales = <<>>
    /\ inconsistencias = {}
    /\ df = <<>>
    /\ excepcion = "none"

\* self._extraer_texto_rango(doc, self.config.paginas_mediciones)
texto_mediciones == extraer_texto_rango(doc, config.paginas_mediciones)

\* self._extraer_texto_rango(doc, self.config.paginas_presupuesto)
texto_presupuesto == extraer_texto_rango(doc, config.paginas_presupuesto)

\* if not ruta_pdf.exists(): raise FileNotFoundError; fitz.open
Abrir ==
    /\ pc = "inicio"
    /\ IF ruta_existe
       THEN pc' = "paso1" /\ UNCHANGED excepcion
       ELSE pc' = "error" /\ excepcion' = "FileNotFoundError"
    /\ UNCHANGED <<ruta_existe, doc, config, mapa_metadatos, partidas_finales,
                   inconsistencias, df>>
    /\ UNCHANGED <<numVars, nlpVars, runVars>>

Paso1 ==
    /\ pc = "paso1"
    /\ mapa_metadatos' =
           MapearMetadatos(texto_mediciones)
    /\ pc' = "paso2"
    /\ UNCHANGED <<ruta_existe, doc, config, partidas_finales, inconsistencias,
                   df, excepcion>>
    /\ UNCHANGED <<numVars, nlpVars, runVars>>

Paso2 ==
    /\ pc = "paso2"
    /\ LET ps == FusionarFilas(texto_presupuesto, mapa_metadatos)
       IN IF \E k \in 1..Len(ps) : Propagada(ps[k])
          THEN /\ pc' = "error" /\ excepcion' = "ValueError"
               /\ UNCHANGED partidas_finales
          ELSE /\ partidas_finales' = ps
               /\ pc' = "consistencia"
               /\ UNCHANGED excepcion
    /\ UNCHANGED <<ruta_existe, doc, config, mapa_metadatos, inconsistencias, df>>
    /\ UNCHANGED <<numVars, nlpVars, runVars>>

\* the ConsistencyChecker pass over the reconciled items
VerificarConsistencia ==
    /\ pc = "consistencia"
    /\ inconsistencias' = Inconsistencias(partidas_finales)
    /\ pc' = "paso3"
    /\ UNCHANGED <<ruta_existe, doc, config, mapa_metadatos, partidas_finales,
                   df, excepcion>>
    /\ UNCHANGED <<numVars, nlpVars, runVars>>

TablaVaciaDevuelta(partidas) == FALSE

\* if not partidas_finales: raise ValueError(...)
TablaVacia(partidas) == partidas = <<>>

Paso3 ==
    /\ pc = "paso3"
    /\ IF TablaVacia(partidas_finales)
       THEN pc' = "error" /\ excepcion' = "ValueError" /\ UNCHANGED df
       ELSE pc' = "retornado" /\ df' = OrdenarDataFrame(partidas_finales)
                              /\ UNCHANGED excepcion
    /\ UNCHANGED <<ruta_existe, doc, config, mapa_metadatos, partidas_finales,
                   inconsistencias>>
    /\ UNCHANGED <<numVars, nlpVars, runVars>>

(***************************************************************************)
(* _convertir_numero on its own: the inputs of the model                   *)
(***************************************************************************)
MaxLargo == 4

MaxGrupos == 1

MaxDecimales == 1

AlfabetoNumero == {"0", "1", ".", ",", "e", "x"}

DigitosMuestra == {"0", "7"}

Cadenas(alfabeto, n) == UNION {[1..k -> alfabeto] : k \in 0..n}

RECURSIVE Concatenar(_)
Concatenar(ss) == IF ss = <<>> THEN <<>> ELSE Head(ss) \o Concatenar(Tail(ss))

\* the strings \d{1,3}(\.\d{3})*,\d+ over the sample digits
CadenasLocale ==
    { c \o Concatenar([k \in 1..Len(gs) |-> <<".">> \o gs[k]]) \o <<",">> \o d :
        c  \in Cadenas(DigitosMuestra, 3) \ {<<>>},
        gs \in UNION {[1..k -> [1..3 -> DigitosMuestra]] : k \in 0..MaxGrupos},
        d  \in Cadenas(DigitosMuestra, MaxDecimales) \ {<<>>} }

Ejemplos ==
    { <<"1",".","2","3","4",",","5","6">>, <<"1","0","0",",","0","0">>,
      <<"i","n","v","a","l","i","d","o">>, <<>>, PyNone, <<"1",",","2",",","3">>,
      <<" ","1","2"," ">>, <<"i","n","f">>, <<"N","a","N">>, <<"1","e","5">>,
      <<"9",".","9","9","9",",","5">>, <<"+","3",",","2","5">>, <<".">>, <<",">>,
      <<"-","1",",","5">>, <<"1","_","0","0","0">>, <<"_","1">>,
      <<"1","2",".","3","4","5",".","6","7","8",",","9","0">> }

EntradasNumero == Cadenas(AlfabetoNumero, MaxLargo) \cup CadenasLocale \cup Ejemplos

InitNumero ==
    /\ texto_numero \in EntradasNumero
    /\ num_salida = Cero
    /\ num_pc = "llamar"

NumeroEnReposo == texto_numero = <<>> /\ num_salida = Cero /\ num_pc = "reposo"

\* one call of _convertir_numero: it returns, or an exception leaves it
ConvertirNumero ==
    /\ num_pc = "llamar"
    /\ num_salida' = convertir_numero(texto_numero)
    /\ num_pc' = IF num_salida'.exc = "none" THEN "hecho" ELSE "excepcion"
    /\ UNCHANGED texto_numero
    /\ UNCHANGED <<extVars, nlpVars, runVars>>

(***************************************************************************)
(* AnalizadorNLP: the entity tagger.  A description is a string; the       *)
(* tagger works on its tokens, the runs of characters between blanks.      *)
(***************************************************************************)
\* a value that is not a str (an int, say); the tagger raises on it
PyEntero == <<"<int>">>

EsStr(x) == x # PyNone /\ x # PyEntero

Palabras(texto) == SelectSeq(Split(texto, " "), LAMBDA t : t # <<>>)

\* the MATERIAL terms of _configurar_entity_ruler (matched as written)
Materiales == { <<"c","a","b","l","e">>, <<"b","o","r","n","a","s">>,
                <<"c","o","n","t","a","c","t","o","r">>,
                <<"p","r","o","t","e","c","c","i","ó","n">> }

\* the NORMATIVA terms
Normativas == { <<"R","E","B","T">>, <<"I","E","C">>, <<"U","N","E","-","E","N">> }

\* {"TEXT": {"REGEX": r"\d+x\d+[aA]"}}: the token holds digits, x, digits, a|A
EsParametro(t) ==
    \E j \in 2..Len(t) : \E k \in (j + 2)..Len(t) :
        /\ t[j] = "x"
        /\ t[j - 1] \in Digitos
        /\ \A m \in (j + 1)..(k - 1) : t[m] \in Digitos
        /\ t[k] \in {"a", "A"}

\* entities of the pretrained model that the ruler does not overwrite
Organizaciones == { <<"S","i","e","m","e","n","s">> }

Etiqueta(t) ==
    IF t \in Materiales THEN "MATERIAL"
    ELSE IF t \in Normativas THEN "NORMATIVA"
    ELSE IF EsParametro(t) THEN "PARAMETRO"
    ELSE IF t \in Organizaciones THEN "ORG"
    ELSE "O"

\* doc = self.nlp(descripcion); doc.ents
Tagger(descripcion) ==
    IF ~EsStr(descripcion) THEN [exc |-> "ValueError", ents |-> <<>>]
    ELSE [exc |-> "none",
          ents |-> LET ts == SelectSeq(Palabras(descripcion), LAMBDA t : Etiqueta(t) # "O")
                   IN [k \in 1..Len(ts) |-> [text |-> ts[k], label_ |-> Etiqueta(ts[k])]]]

(***************************************************************************)
(* AnalizadorNLP._procesar_entidades                                       *)
(***************************************************************************)
Contactor == <<"c","o","n","t","a","c","t","o","r">>

\* needle in texto
Contiene(texto, needle) ==
    \E i \in 1..(Len(texto) - Len(needle) + 1) :
        SubSeq(texto, i, i + Len(needle) - 1) = needle

SinMinusculas(descripcion) == Contiene(descripcion, Contactor)

\* "contactor" in descripcion.lower()
MencionaContactor(descripcion) == Contiene(Lower(descripcion), Contactor)

\* any(ent.label_ == "PARAMETRO" for ent in doc.ents)
TieneParametro(ents) == \E k \in 1..Len(ents) : ents[k].label_ = "PARAMETRO"

Mensaje == "Se menciona 'contactor' sin parámetro técnico (ej: 4x25A)."

\* defaultdict(int)[k] += 1
Incrementar(conteo, k) ==
    [x \in (DOMAIN conteo) \cup {k} |->
        IF x = k THEN (IF k \in DOMAIN conteo THEN conteo[k] ELSE 0) + 1
        ELSE conteo[x]]

RECURSIVE ContarEntidades(_, _)
ContarEntidades(ents, res) ==
    IF ents = <<>> THEN res
    ELSE LET ent == Head(ents)
         IN ContarEntidades(Tail(ents),
              IF ent.label_ = "MATERIAL"
              THEN [res EXCEPT !.conteo_materiales = Incrementar(@, Lower(ent.text))]
              ELSE IF ent.label_ = "NORMATIVA"
              THEN [res EXCEPT !.normativas_encontradas = @ \cup {Upper(ent.text)}]
              ELSE res)

procesar_entidades(ents, res, codigo, descripcion) ==
    LET r == ContarEntidades(ents, res)
    IN IF MencionaContactor(descripcion) /\ ~TieneParametro(ents)
       THEN [r EXCEPT !.alertas_tecnicas =
                 Append(@, [codigo |-> codigo, mensaje |-> Mensaje])]
       ELSE r

(***************************************************************************)
(* AnalizadorNLP.analizar as steps                                         *)
(***************************************************************************)
\* the input of analizar: whether it is a dict, whether it has the key
\* 'partidas', whether that value is a list, and the items it holds
SinResultados == [creado |-> FALSE]

ResultadosVacios ==
    [creado |-> TRUE, conteo_materiales |-> <<>>,
     normativas_encontradas |-> {}, alertas_tecnicas |-> <<>>]

SoloClavePartidas(d) == ~d.es_dict \/ ~d.tiene_partidas

\* not isinstance(datos, dict) or "partidas" not in datos
\*     or not isinstance(datos["partidas"], list)
EntradaInvalida(d) == ~d.es_dict \/ ~d.tiene_partidas \/ ~d.partidas_es_lista

\* partida.get("descripcion", "") and partida.get("codigo", "N/A")
DescripcionDe(partida) ==
    IF "descripcion" \in DOMAIN partida THEN partida.descripcion ELSE <<>>

CodigoDe(partida) ==
    IF "codigo" \in DOMAIN partida THEN partida.codigo ELSE <<"N","/","A">>

EsDict(partida) == "es_dict" \in DOMAIN partida /\ partida.es_dict

\* `not descripcion`: an empty str, None
Falsy(x) == x = <<>> \/ x = PyNone

NLPEnReposo ==
    /\ datos_nlp = [es_dict |-> FALSE, tiene_partidas |-> FALSE,
                partidas_es_lista |-> FALSE, partidas |-> <<>>]
    /\ nlp_pc = "reposo"
    /\ idx = 0
    /\ resultados = SinResultados
    /\ tagger_llamadas = 0
    /\ nlp_excepcion = "none"
    /\ nlp_retorno = SinResultados

\* the check of the input shape that opens analizar
Validar ==
    /\ nlp_pc = "validar"
    /\ IF EntradaInvalida(datos_nlp)
       THEN nlp_pc' = "error" /\ nlp_excepcion' = "ValueError"
       ELSE nlp_pc' = "crear" /\ UNCHANGED nlp_excepcion
    /\ UNCHANGED <<datos_nlp, idx, resultados, tagger_llamadas, nlp_retorno>>
    /\ UNCHANGED <<numVars, extVars, runVars>>

\* resultados = {...}
CrearResultados ==
    /\ nlp_pc = "crear"
    /\ resultados' = ResultadosVacios
    /\ idx' = 1
    /\ nlp_pc' = "bucle"
    /\ UNCHANGED <<datos_nlp, tagger_llamadas, nlp_excepcion, nlp_retorno>>
    /\ UNCHANGED <<numVars, extVars, runVars>>

\* the item reaches self.nlp(descripcion)
LlegaAlTagger(partida) == EsDict(partida) /\ ~Falsy(DescripcionDe(partida))

PierdeAlFallar(res, partida) ==
    IF ~LlegaAlTagger(partida) THEN res
    ELSE LET t == Tagger(DescripcionDe(partida))
         IN IF t.exc # "none" THEN ResultadosVacios
            ELSE procesar_entidades(t.ents, res, CodigoDe(partida), DescripcionDe(partida))

\* the body of the loop on one item: the two `continue` of the checks, the
\* try, and the `continue` of the except
ProcesarPartida(res, partida) ==
    IF ~LlegaAlTagger(partida) THEN res
    ELSE LET t == Tagger(DescripcionDe(partida))
         IN IF t.exc # "none" THEN res
            ELSE procesar_entidades(t.ents, res, CodigoDe(partida), DescripcionDe(partida))

\* one turn of `for partida in datos["partidas"]`
Iterar ==
    /\ nlp_pc = "bucle"
    /\ idx <= Len(datos_nlp.partidas)
    /\ LET partida == datos_nlp.partidas[idx]
       IN /\ tagger_llamadas' =
                 IF LlegaAlTagger(partida) THEN tagger_llamadas + 1 ELSE tagger_llamadas
          /\ resultados' = ProcesarPartida(resultados, partida)
    /\ idx' = idx + 1
    /\ UNCHANGED <<datos_nlp, nlp_pc, nlp_excepcion, nlp_retorno>>
    /\ UNCHANGED <<numVars, extVars, runVars>>

\* the place of a character of a standard's name in the order of str
PuntoDeCodigo(c) ==
    IF c = "-" THEN 0 ELSE CHOOSE k \in 1..Len(Mayusculas) : Mayusculas[k] = c

RECURSIVE StrMenor(_, _)
StrMenor(a, b) ==
    IF b = <<>> THEN FALSE
    ELSE IF a = <<>> THEN TRUE
    ELSE IF Head(a) # Head(b) THEN PuntoDeCodigo(Head(a)) < PuntoDeCodigo(Head(b))
    ELSE StrMenor(Tail(a), Tail(b))

\* sorted(a set of str)
RECURSIVE Sorted(_)
Sorted(S) ==
    IF S = {} THEN <<>>
    ELSE LET m == CHOOSE x \in S : \A y \in S \ {x} : StrMenor(x, y)
         IN <<m>> \o Sorted(S \ {m})

\* return {...}: the counts as a dict, the standards sorted, the alerts
Retornar ==
    /\ nlp_pc = "bucle"
    /\ idx > Len(datos_nlp.partidas)
    /\ nlp_retorno' =
           [conteo_materiales      |-> resultados.conteo_materiales,
            normativas_encontradas |-> Sorted(resultados.normativas_encontradas),
            alertas_tecnicas       |-> resultados.alertas_tecnicas]
    /\ nlp_pc' = "retornado"
    /\ UNCHANGED <<datos_nlp, idx, resultados, tagger_llamadas, nlp_excepcion>>
    /\ UNCHANGED <<numVars, extVars, runVars>>

(***************************************************************************)
(* The inputs of analizar in the model                                     *)
(***************************************************************************)
Cod1 == <<"1","0",".","0","1",".","0","1">>

Cod2 == <<"1","0",".","0","1",".","0","2">>

PartidasModelo ==
    { [es_dict |-> TRUE, codigo |-> Cod1,
       descripcion |-> <<"I","n","s","t","a","l","a","r"," ","c","o","n","t","a","c","t","o","r">>],
      [es_dict |-> TRUE, codigo |-> Cod2,
       descripcion |-> <<"I","n","s","t","a","l","a","r"," ","c","o","n","t","a","c","t","o","r"," ","4","x","2","5","A">>],
      [es_dict |-> TRUE,
       descripcion |-> <<"C","O","N","T","A","C","T","O","R"," ","c","a","b","l","e"," ","R","E","B","T">>],
      [es_dict |-> TRUE, codigo |-> Cod1,
       descripcion |-> <<"c","a","b","l","e"," ","S","i","e","m","e","n","s"," ","I","E","C"," ","c","a","b","l","e">>],
      [es_dict |-> TRUE, codigo |-> Cod2, descripcion |-> <<>>],
      [es_dict |-> TRUE, codigo |-> Cod2],
      [es_dict |-> TRUE, codigo |-> Cod1, descripcion |-> PyEntero],
      [es_dict |-> FALSE] }

MaxPartidas == 2

ListasDePartidas == UNION {[1..n -> PartidasModelo] : n \in 0..MaxPartidas}

InitNLP ==
    /\ datos_nlp \in [es_dict : BOOLEAN, tiene_partidas : BOOLEAN,
                  partidas_es_lista : BOOLEAN, partidas : ListasDePartidas]
    /\ datos_nlp.tiene_partidas => datos_nlp.es_dict
    /\ datos_nlp.partidas_es_lista => datos_nlp.tiene_partidas
    /\ nlp_pc = "validar"
    /\ idx = 0
    /\ resultados = SinResultados
    /\ tagger_llamadas = 0
    /\ nlp_excepcion = "none"
    /\ nlp_retorno = SinResultados

(***************************************************************************)
(* The orchestrators: main.run and cli.procesar.  Both call                *)
(* ExtractorPDF.extraer_datos_pdf, a class the source tree does not hold;  *)
(* its outcome is an input of the run: it raises, or it returns the two    *)
(* tables, of which the run uses the rows of DESCRIPCIONES_COMPLETAS.      *)
(***************************************************************************)
FilasDescripciones ==
    { [CODIGO |-> Cod1,
       DESCRIPCION_COMPLETA |-> Cod1 \o <<" ","c","o","n","t","a","c","t","o","r">>],
      [CODIGO |-> Cod2,
       DESCRIPCION_COMPLETA |-> Cod2 \o <<" ","c","a","b","l","e"," ","4","x","2","5","A">>] }

MaxFilas == 2

TablasDescripciones == UNION {[1..n -> FilasDescripciones] : n \in 0..MaxFilas}

\* what extraer_datos_pdf does: raise, or return the tables
ResultadosExtraccion ==
    {[exc |-> e, filas |-> <<>>] : e \in {"FileNotFoundError", "ValueError"}}
        \cup {[exc |-> "none", filas |-> t] : t \in TablasDescripciones}

FinDeDocumento == 9999

\* the --fin values tried: the default 0, a page number, a negative number
ValoresFin == {0, 2, -1}

\* the --inicio values tried
ValoresInicio == {1, 2}

\* len(doc) of the PDF handed to the run: short documents, and the lengths
\* on either side of the end page that stands for "to the end"
LargosDocumento == {1, 2, FinDeDocumento, FinDeDocumento + 1}

\* (inicio, fin if fin != 0 else 9999) in main.run,
\* (inicio, fin if fin > 0 else 9999) in cli.procesar
Paginas(v, a) ==
    IF v = "main"
    THEN <<a.inicio, IF a.fin # 0 THEN a.fin ELSE FinDeDocumento>>
    ELSE <<a.inicio, IF a.fin > 0 THEN a.fin ELSE FinDeDocumento>>

\* df.rename(columns={...}).to_dict('records'), then str() of the two fields
convertir_a_formato_nlp(filas) ==
    [es_dict |-> TRUE, tiene_partidas |-> TRUE, partidas_es_lista |-> TRUE,
     partidas |-> [k \in 1..Len(filas) |->
                      [es_dict |-> TRUE, codigo |-> filas[k].CODIGO,
                       descripcion |-> filas[k].DESCRIPCION_COMPLETA]]]

RunEnReposo ==
    /\ variante = "ninguna"
    /\ args = [inicio |-> 1, fin |-> 0]
    /\ n_paginas = 0
    /\ archivo_existe = FALSE
    /\ extraccion = [exc |-> "none", filas |-> <<>>]
    /\ modelo_instalado = FALSE
    /\ run_pc = "reposo"
    /\ paginas = <<0, 0>>
    /\ excel_escrito = FALSE
    /\ json_escrito = FALSE

InitRun ==
    /\ variante \in {"main", "cli"}
    /\ args \in [inicio : ValoresInicio, fin : ValoresFin]
    /\ n_paginas \in LargosDocumento
    /\ archivo_existe \in BOOLEAN
    /\ extraccion \in ResultadosExtraccion
    /\ modelo_instalado \in BOOLEAN
    /\ run_pc = "inicio"
    /\ paginas = <<0, 0>>
    /\ excel_escrito = FALSE
    /\ json_escrito = FALSE

\* the pages the extraction of the run reads: those of the range it was
\* given, as range(start - 1, min(end, len(doc))) visits them
paginas_cubiertas == PaginasDelRango(paginas[1], paginas[2], n_paginas)

\* the check of the path before the run: args.archivo_pdf.exists() in main,
\* typer.Argument(exists=True) in cli
Arrancar ==
    /\ run_pc = "inicio"
    /\ run_pc' = IF archivo_existe THEN "extraer" ELSE "rechazado"
    /\ UNCHANGED <<variante, args, n_paginas, archivo_existe, extraccion, modelo_instalado,
                   paginas, excel_escrito, json_escrito>>
    /\ UNCHANGED <<numVars, extVars, nlpVars>>

\* extractor.extraer_datos_pdf(str(archivo_pdf), paginas); main.run returns
\* when the table is empty, cli.procesar does not look
Extraer ==
    /\ run_pc = "extraer"
    /\ paginas' = Paginas(variante, args)
    /\ run_pc' = IF extraccion.exc # "none" THEN "fallo"
                 ELSE IF variante = "main" /\ extraccion.filas = <<>> THEN "sin_partidas"
                 ELSE "excel"
    /\ UNCHANGED <<variante, args, n_paginas, archivo_existe, extraccion, modelo_instalado,
                   excel_escrito, json_escrito>>
    /\ UNCHANGED <<numVars, extVars, nlpVars>>

\* with pd.ExcelWriter(...) as writer: the two sheets
GuardarExcel ==
    /\ run_pc = "excel"
    /\ excel_escrito' = TRUE
    /\ run_pc' = "analizador"
    /\ UNCHANGED <<variante, args, n_paginas, archivo_existe, extraccion, modelo_instalado,
                   paginas, json_escrito>>
    /\ UNCHANGED <<numVars, extVars, nlpVars>>

\* AnalizadorNLP() raises RuntimeError when the spaCy model does not load;
\* otherwise analizar is called on the converted rows
IniciarAnalisis ==
    /\ run_pc = "analizador"
    /\ IF modelo_instalado
       THEN /\ run_pc' = "analizando"
            /\ datos_nlp' = convertir_a_formato_nlp(extraccion.filas)
            /\ nlp_pc' = "validar"
       ELSE /\ run_pc' = "fallo"
            /\ UNCHANGED <<datos_nlp, nlp_pc>>
    /\ UNCHANGED <<idx, resultados, tagger_llamadas, nlp_excepcion, nlp_retorno>>
    /\ UNCHANGED <<variante, args, n_paginas, archivo_existe, extraccion, modelo_instalado,
                   paginas, excel_escrito, json_escrito>>
    /\ UNCHANGED <<numVars, extVars>>

\* analizar has returned or raised: json.dump of its result, or the except
TerminarAnalisis ==
    /\ run_pc = "analizando"
    /\ nlp_pc \in {"retornado", "error"}
    /\ IF nlp_pc = "retornado"
       THEN json_escrito' = TRUE /\ run_pc' = "completado"
       ELSE run_pc' = "fallo" /\ UNCHANGED json_escrito
    /\ UNCHANGED <<variante, args, n_paginas, archivo_existe, extraccion, modelo_instalado,
                   paginas, excel_escrito>>
    /\ UNCHANGED <<numVars, extVars, nlpVars>>

(***************************************************************************)
(* The extractor: a run of procesar_pdf, or a call of _convertir_numero    *)
(***************************************************************************)
Init ==
    \/ InitExtractor /\ NumeroEnReposo /\ NLPEnReposo /\ RunEnReposo
    \/ ExtractorEnReposo /\ InitNumero /\ NLPEnReposo /\ RunEnReposo

Next == Abrir \/ Paso1 \/ Paso2 \/ VerificarConsistencia \/ Paso3 \/ ConvertirNumero

Spec == Init /\ [][Next]_vars

(***************************************************************************)
(* The analyser on its own: one call of analizar                           *)
(***************************************************************************)
InitAnalizador == ExtractorEnReposo /\ NumeroEnReposo /\ InitNLP /\ RunEnReposo

NextAnalizador == Validar \/ CrearResultados \/ Iterar \/ Retornar

SpecNLP == InitAnalizador /\ [][NextAnalizador]_vars

(***************************************************************************)
(* A run of an orchestrator, the analyser's steps included                 *)
(***************************************************************************)
InitOrquestador == ExtractorEnReposo /\ NumeroEnReposo /\ NLPEnReposo /\ InitRun

NextOrquestador ==
    \/ Arrancar
    \/ Extraer
    \/ GuardarExcel
    \/ IniciarAnalisis
    \/ Validar
    \/ CrearResultados
    \/ Iterar
    \/ Retornar
    \/ TerminarAnalisis

SpecRun == InitOrquestador /\ [][NextOrquestador]_vars

(***************************************************************************)
(* Properties of procesar_pdf and _convertir_numero                        *)
(***************************************************************************)
\* the rows and blocks the two patterns match in the texts of this run
FilasLeidas == finditer_fila_presupuesto(texto_presupuesto)

BloquesLeidos == finditer_bloque_medicion(texto_mediciones)

Paso2Hecho == pc \in {"consistencia", "paso3", "retornado"}

UD == <<"U", "D">>

\* C1: every row matched in the table text is emitted with the description
\* and unit of the metadata mapping when its code is a key of the mapping,
\* and with its own short description and the unit "UD" when it is not.
C1_FilasReconciliadas ==
    Paso2Hecho =>
      LET filas == FilasLeidas
      IN
        /\ Len(partidas_finales) = Len(filas)
        /\ \A k \in 1..Len(filas) :
              LET fila == filas[k]
                  p    == partidas_finales[k]
              IN /\ p.CODIGO = fila.codigo
                 /\ fila.codigo \in DOMAIN mapa_metadatos =>
                        /\ p.DESCRIPCION = mapa_metadatos[fila.codigo].DESCRIPCION
                        /\ p.UNIDAD = mapa_metadatos[fila.codigo].UNIDAD
                 /\ fila.codigo \notin DOMAIN mapa_metadatos =>
                        /\ p.DESCRIPCION = fila.desc_corta
                        /\ p.UNIDAD = UD

\* a run whose table holds a mapped row (whose description differs from the
\* row's own) and an unmapped one
C1_Witness ==
    /\ pc = "retornado"
    /\ LET filas == FilasLeidas
       IN \E k \in 1..Len(partidas_finales) :
             /\ partidas_finales[k].CODIGO \in DOMAIN mapa_metadatos
             /\ partidas_finales[k].DESCRIPCION # filas[k].desc_corta
             /\ partidas_finales[k].UNIDAD # UD
    /\ \E k \in 1..Len(partidas_finales) :
          /\ partidas_finales[k].CODIGO \notin DOMAIN mapa_metadatos
          /\ partidas_finales[k].UNIDAD = UD

\* C2: when the table pass matches no row the call ends in ValueError,
\* whatever the mapping holds; an empty table is never returned.
C2_TablaVaciaEsFatal ==
    /\ pc = "retornado" => (df # <<>> /\ FilasLeidas # <<>>)
    /\ (pc \in {"retornado", "error"} /\ ruta_existe /\ FilasLeidas = <<>>) =>
           (pc = "error" /\ excepcion = "ValueError" /\ df = <<>>)

\* the empty-extraction error with a mapping that is not empty
C2_Witness ==
    /\ pc = "error" /\ excepcion = "ValueError"
    /\ FilasLeidas = <<>>
    /\ DOMAIN mapa_metadatos # {}

\* the value of a string \d{1,3}(\.\d{3})*,\d+ read with '.' between
\* thousands and ',' before the decimals
EsLocaleValido(s) ==
    /\ s # PyNone
    /\ Len(Split(s, ",")) = 2
    /\ LET izq == Split(Split(s, ",")[1], ".")
           der == Split(s, ",")[2]
       IN /\ der # <<>> /\ SoloDigitos(der)
          /\ Len(izq[1]) \in 1..3 /\ SoloDigitos(izq[1])
          /\ \A k \in 2..Len(izq) : Len(izq[k]) = 3 /\ SoloDigitos(izq[k])

RECURSIVE Miles(_)
Miles(grupos) ==
    IF grupos = <<>> THEN 0
    ELSE 1000 * Miles(SubSeq(grupos, 1, Len(grupos) - 1)) + ToInt(grupos[Len(grupos)])

ParteEntera(s) == Miles(Split(Split(s, ",")[1], "."))

Decimales(s) == Split(s, ",")[2]

\* C3: for every string of the locale shape, _convertir_numero returns its
\* arithmetic value: the groups as thousands, the digits after ',' as decimals.
C3_ValorLocale ==
    (num_pc # "llamar" /\ num_pc # "reposo" /\ EsLocaleValido(texto_numero)) =>
        /\ num_pc = "hecho"
        /\ num_salida.clase = "fin" /\ ~num_salida.neg /\ num_salida.exp = 0
        /\ num_salida.ent = ParteEntera(texto_numero)
        /\ num_salida.frac * Pot10(Len(Decimales(texto_numero)))
               = ToInt(Decimales(texto_numero)) * Pot10(num_salida.escala)

\* "1.234,56" gives 1234.56
C3_Witness ==
    /\ num_pc = "hecho"
    /\ texto_numero = <<"1",".","2","3","4",",","5","6">>
    /\ num_salida.ent = 1234 /\ num_salida.frac = 56 /\ num_salida.escala = 2

NoParsea(t) == NumeroNormalizado(t).exc # "none"

\* C4: _convertir_numero never raises and returns 0.0 for every input that
\* does not parse (empty, text, None, "1,2,3"); a bad numeric field of a
\* matched row does not abort procesar_pdf, and the row is emitted.
C4_NuncaLanza ==
    /\ num_pc # "excepcion"
    /\ (num_pc = "hecho" /\ NoParsea(texto_numero)) => num_salida = Cero
    /\ (num_pc = "hecho" /\ texto_numero \in
            {<<>>, PyNone, <<"i","n","v","a","l","i","d","o">>,
             <<"1",",","2",",","3">>}) => num_salida = Cero
    /\ pc = "error" => (~ruta_existe \/ FilasLeidas = <<>>)
    /\ Paso2Hecho =>
          LET filas == FilasLeidas
          IN /\ Len(partidas_finales) = Len(filas)
             /\ \A k \in 1..Len(filas) :
                   /\ NoParsea(filas[k].cantidad) =>
                          partidas_finales[k].CANTIDAD = Cero
                   /\ NoParsea(filas[k].precio) =>
                          partidas_finales[k].PRECIO_UNITARIO = Cero
                   /\ NoParsea(filas[k].importe) =>
                          partidas_finales[k].IMPORTE_TOTAL = Cero

\* a returned table one of whose rows had the quantity "1,2,3"
C4_Witness ==
    /\ pc = "retornado"
    /\ LET filas == FilasLeidas
       IN \E k \in 1..Len(filas) :
             /\ filas[k].cantidad = <<"1",",","2",",","3">>
             /\ partidas_finales[k].CANTIDAD = Cero
             /\ \E j \in 1..Len(df) : df[j] = partidas_finales[k]

\* the integer triple of a code
Triple(codigo) == <<Segmento(codigo, 1), Segmento(codigo, 2), Segmento(codigo, 3)>>

TripleMenorIgual(a, b) ==
    \/ a[1] < b[1]
    \/ a[1] = b[1] /\ a[2] < b[2]
    \/ a[1] = b[1] /\ a[2] = b[2] /\ a[3] <= b[3]

\* C5: the returned table is in ascending order of the integer triples of
\* the codes: each row's triple is at most that of the row after it.
C5_OrdenNatural ==
    pc = "retornado" =>
        \A j \in 1..(Len(df) - 1) :
            TripleMenorIgual(Triple(df[j].CODIGO), Triple(df[j + 1].CODIGO))

\* a returned table that the sort reordered, with first segment 99 before 100
C5_Witness ==
    /\ pc = "retornado"
    /\ df # partidas_finales
    /\ \E j \in 1..(Len(df) - 1) :
          /\ Segmento(df[j].CODIGO, 1) = 99
          /\ Segmento(df[j + 1].CODIGO, 1) = 100

\* the places of the blocks of bs that carry code c, and the last of them
BloquesDe(bs, c) == {k \in 1..Len(bs) : bs[k].codigo = c}

UltimoDe(bs, c) == CHOOSE k \in BloquesDe(bs, c) : \A j \in BloquesDe(bs, c) : j <= k

EnMayusculas(u) == \A i \in 1..Len(u) : \A j \in 1..26 : u[i] # Minusculas[j]

\* C10: after pass 1 the mapping has exactly the codes of the matched blocks;
\* each entry is the description and upper-cased unit of the last block with
\* that code; no block gives the empty mapping, and pass 1 never raises.
C10_MapaMetadatos ==
    /\ (pc = "error" /\ ruta_existe) => excepcion = "ValueError" /\ FilasLeidas = <<>>
    /\ (pc = "paso2" \/ Paso2Hecho) =>
          LET bs == BloquesLeidos
          IN
          /\ DOMAIN mapa_metadatos = {bs[k].codigo : k \in 1..Len(bs)}
          /\ bs = <<>> => mapa_metadatos = MapaVacio
          /\ \A c \in DOMAIN mapa_metadatos :
                LET b == bs[UltimoDe(bs, c)]
                IN /\ mapa_metadatos[c].DESCRIPCION = b.texto
                   /\ EnMayusculas(mapa_metadatos[c].UNIDAD)
                   /\ Lower(mapa_metadatos[c].UNIDAD) = Lower(b.unidad)

\* a mapping with fewer entries than blocks: a code came twice with
\* different texts, and the entry is the later one
C10_Witness ==
    /\ pc = "paso2"
    /\ LET bs == BloquesLeidos
       IN /\ \E c \in DOMAIN mapa_metadatos :
                /\ Cardinality(BloquesDe(bs, c)) >= 2
                /\ \E k \in BloquesDe(bs, c) : bs[k].texto # bs[UltimoDe(bs, c)].texto
                /\ mapa_metadatos[c].DESCRIPCION = bs[UltimoDe(bs, c)].texto
          /\ \E c \in DOMAIN mapa_metadatos : Cardinality(BloquesDe(bs, c)) = 1

\* the amounts of a row in hundredths
Cent(x) == Escalado(x, 2)

FilaDe(cantidad, precio, importe) ==
    {k \in 1..Len(partidas_finales) :
        /\ Cent(partidas_finales[k].CANTIDAD) = cantidad
        /\ Cent(partidas_finales[k].PRECIO_UNITARIO) = precio
        /\ Cent(partidas_finales[k].IMPORTE_TOTAL) = importe}

C7_SinSalidaParcial ==
    run_pc = "fallo" => ~excel_escrito /\ ~json_escrito

\* the items of the input that analizar has gone through so far
Recorridas == SubSeq(datos_nlp.partidas, 1, idx - 1)

\* the description holds "contactor" in any mix of upper and lower case
ContactorSinDistinguirCaja(d) ==
    \E i \in 1..(Len(d) - 8) :
        \A j \in 1..9 : LowerChar(d[i + j - 1]) = Contactor[j]

\* the item is one that must raise an alert
DebeAlertar(partida) ==
    /\ EsDict(partida)
    /\ "descripcion" \in DOMAIN partida
    /\ EsStr(partida.descripcion)
    /\ partida.descripcion # <<>>
    /\ ContactorSinDistinguirCaja(partida.descripcion)
    /\ Tagger(partida.descripcion).exc = "none"
    /\ \A k \in 1..Len(Tagger(partida.descripcion).ents) :
           Tagger(partida.descripcion).ents[k].label_ # "PARAMETRO"

RECURSIVE AlertasEsperadas(_)
AlertasEsperadas(partidas) ==
    IF partidas = <<>> THEN <<>>
    ELSE (IF DebeAlertar(Head(partidas))
          THEN << [codigo |-> CodigoDe(Head(partidas)), mensaje |-> Mensaje] >>
          ELSE <<>>) \o AlertasEsperadas(Tail(partidas))

\* C8: analizar raises an alert {code, message} for an item exactly when its
\* non-empty description contains "contactor" case-insensitively and the
\* tagger returns no PARAMETRO entity for it; an item gives at most one alert.
\* The alerts so far are, in order, one for each such item gone through.
C8_AlertasContactor ==
    nlp_pc \in {"bucle", "retornado"} =>
        /\ resultados.alertas_tecnicas = AlertasEsperadas(Recorridas)
        /\ nlp_pc = "retornado" => nlp_retorno.alertas_tecnicas = AlertasEsperadas(datos_nlp.partidas)

C8_Witness ==
    /\ nlp_pc = "retornado"
    /\ Len(datos_nlp.partidas) = 2
    /\ datos_nlp.partidas[1].es_dict /\ datos_nlp.partidas[2].es_dict
    /\ DescripcionDe(datos_nlp.partidas[1]) =
           <<"I","n","s","t","a","l","a","r"," ","c","o","n","t","a","c","t","o","r"," ","4","x","2","5","A">>
    /\ DescripcionDe(datos_nlp.partidas[2]) =
           <<"I","n","s","t","a","l","a","r"," ","c","o","n","t","a","c","t","o","r">>
    /\ nlp_retorno.alertas_tecnicas = << [codigo |-> Cod1, mensaje |-> Mensaje] >>

\* C9: when the input of analizar is not a mapping, has no 'partidas' field,
\* or that field is not a list, analizar raises ValueError with the tagger
\* never called and no result accumulator created; a well-shaped input
\* never raises.
C9_ContratoDeEntrada ==
    nlp_pc \notin {"reposo", "validar"} =>
        IF ~datos_nlp.es_dict \/ ~datos_nlp.tiene_partidas \/ ~datos_nlp.partidas_es_lista
        THEN /\ nlp_pc = "error"
             /\ nlp_excepcion = "ValueError"
             /\ tagger_llamadas = 0
             /\ resultados = SinResultados
             /\ nlp_retorno = SinResultados
        ELSE nlp_pc # "error" /\ nlp_excepcion = "none"

C9_Witness ==
    /\ nlp_pc = "error"
    /\ nlp_excepcion = "ValueError"
    /\ datos_nlp.es_dict
    /\ datos_nlp.tiene_partidas
    /\ ~datos_nlp.partidas_es_lista
    /\ Len(datos_nlp.partidas) = 2
    /\ DebeAlertar(datos_nlp.partidas[1])

(***************************************************************************)
(* Properties of the sort of procesar_pdf                                  *)
(***************************************************************************)
\* the rows of a table whose code has the integer triple t, in table order
ConTriple(tabla, t) == SelectSeq(tabla, LAMBDA p : Triple(p.CODIGO) = t)

TriplesDe(tabla) == {Triple(tabla[k].CODIGO) : k \in 1..Len(tabla)}

\* how many times a row occurs in a table
Veces(tabla, p) == Cardinality({k \in 1..Len(tabla) : tabla[k] = p})

\* C11: the sort is stable and loses nothing.  The returned table has as many
\* rows as the table text has matched rows, every row occurs in it as often
\* as among the rows built from the text, and the rows whose codes have the
\* same integer triple come in the same relative order as in the text.
C11_OrdenEstable ==
    pc = "retornado" =>
        LET filas == FilasLeidas
        IN /\ Len(df) = Len(filas)
           /\ Len(partidas_finales) = Len(filas)
           /\ \A k \in 1..Len(filas) : partidas_finales[k].CODIGO = filas[k].codigo
           /\ \A k \in 1..Len(partidas_finales) :
                  Veces(df, partidas_finales[k]) = Veces(partidas_finales, partidas_finales[k])
           /\ \A t \in TriplesDe(partidas_finales) :
                  ConTriple(df, t) = ConTriple(partidas_finales, t)

\* a returned table that the sort reordered, in which "10.01.02" stays
\* before "010.01.02" as in the text: the two codes have the same triple
C11_Witness ==
    /\ pc = "retornado"
    /\ df # partidas_finales
    /\ \E j \in 1..(Len(df) - 1) :
          /\ df[j].CODIGO = <<"1","0",".","0","1",".","0","2">>
          /\ df[j + 1].CODIGO = <<"0","1","0",".","0","1",".","0","2">>

(***************************************************************************)
(* Properties of the loop of AnalizadorNLP.analizar                        *)
(***************************************************************************)
\* the item is one the loop skips: not a mapping, no description or an empty
\* one, or a description on which the tagger fails
Saltada(partida) ==
    \/ ~("es_dict" \in DOMAIN partida /\ partida.es_dict)
    \/ "descripcion" \notin DOMAIN partida
    \/ partida.descripcion = <<>>
    \/ partida.descripcion = PyNone
    \/ Tagger(partida.descripcion).exc # "none"

SinSaltadas(partidas) == SelectSeq(partidas, LAMBDA p : ~Saltada(p))

\* the accumulators after a list of items none of which is skipped
RECURSIVE AcumuladoDe(_, _)
AcumuladoDe(partidas, res) ==
    IF partidas = <<>> THEN res
    ELSE AcumuladoDe(Tail(partidas),
                     procesar_entidades(Tagger(Head(partidas).descripcion).ents, res,
                                        CodigoDe(Head(partidas)),
                                        Head(partidas).descripcion))

RECURSIVE TextoDePaginas(_, _, _)
TextoDePaginas(d, a, b) ==
    IF a > b THEN <<>>
    ELSE IF a = b THEN d[a]
    ELSE d[a] \o << <<>> >> \o TextoDePaginas(d, a + 1, b)

\* the text of a range (start, end), 1 <= start, of a document d
TextoDelRango(d, rango) ==
    TextoDePaginas(d, rango[1], IF rango[2] <= Len(d) THEN rango[2] ELSE Len(d))

\* _extraer_texto_rango returns the texts of pages start..min(end, N) in page
\* order, joined by newlines, and nothing when start > min(end, N)
RangoLeido ==
    pc \in {"paso1", "paso2", "consistencia", "paso3", "retornado"} =>
        /\ texto_mediciones = TextoDelRango(doc, config.paginas_mediciones)
        /\ texto_presupuesto = TextoDelRango(doc, config.paginas_presupuesto)
        /\ config.paginas_presupuesto[1] > Len(doc) => texto_presupuesto = <<>>

RangoLeido_Witness ==
    /\ pc = "paso1"
    /\ Len(doc) = 2
    /\ config.paginas_mediciones = <<1, MaxPaginas>>
    /\ texto_mediciones = doc[1] \o << <<>> >> \o doc[2]

\* with end page 0 the run reads every page from the start page to the last
FinCeroLeeHastaElFinal ==
    (args.fin = 0 /\ extraccion.exc = "none"
         /\ run_pc \notin {"reposo", "inicio", "extraer", "rechazado"}) =>
        paginas_cubiertas = args.inicio..n_paginas

\* C13: _extraer_texto_rango returns the texts of pages start..min(end, N) of
\* an N-page document, in page order, joined by newlines (nothing when
\* start > min(end, N)); and a run given end page 0 passes a range with which
\* the extraction reads every page from the start page to the last page,
\* whatever the length of the document.
C13_RangoDePaginas == RangoLeido /\ FinCeroLeeHastaElFinal

====
